---- MODULE Spec2Model ----
(***************************************************************************)
(* Model of halfduplex_bot.py: the half-duplex arbitration of HalfDuplexBot *)
(* and MultiChannelHalfDuplexBot.  One thread delivers sound_received      *)
(* callbacks, every threading.Timer runs its callback on a thread of its   *)
(* own, and stop() runs on the main thread.  A step of the model is one    *)
(* access to shared state (or one `with self.lock` body); the program      *)
(* counters are named after the source line the thread is about to run.    *)
(***************************************************************************)
EXTENDS Integers, Sequences, FiniteSets

(* ---------------------------------------------------------------- bounds *)
\* number of sound_received callbacks delivered in one run
MaxSignals == 3
\* number of mute/unmute requests that raise an exception in one run
MaxFailures == 1
\* stop() is called after at most this many callbacks have been delivered
MaxSignalsBeforeStop == 2
\* number of timer callbacks that run at the same time
MaxRunning == 2

(* ------------------------------------------------------------- constants *)
\* Python's None (current_speaker, absent dictionary entries)
None == -1
\* owner of self.lock: nobody, the sound_received thread, the stop() thread;
\* a timer thread owns it under the timer's (positive) index
FREE == 0
HANDLER == -2
STOPPER == -3

\* the bot's own session: on_connected moves it into the target channel
Bot == 0
\* sessions of the human participants
Participants == {1, 2, 3, 4}
\* mumble.users
Users == {Bot} \cup Participants
\* user['channel_id'] of every entry of mumble.users
user_channel == [u \in Users |-> IF u = 3 THEN 2 ELSE IF u = 4 THEN 3 ELSE 1]
\* mumble.channels: the channel ids
Channels == {1, 2, 3}
\* self.target_channel['channel_id'] once on_connected has found the channel
target_channel == 1

VARIABLES
    running,          \* self.running
    current_speaker,  \* self.current_speaker
    speak_timers,     \* self.speak_timers: session -> timer index, None if absent
    lock,             \* owner of self.lock
    timers,           \* every threading.Timer created so far, in creation order
    handler,          \* the thread delivering sound_received
    stopper,          \* the thread running stop()
    muted,            \* server-side mute flag of every user
    signals,          \* sound_received callbacks delivered so far
    failures,         \* requests that raised so far
    channel_speakers, \* MultiChannelHalfDuplexBot.channel_speakers
    channel_timers    \* MultiChannelHalfDuplexBot.channel_timers

vars == <<running, current_speaker, speak_timers, lock, timers, handler,
          stopper, muted, signals, failures, channel_speakers, channel_timers>>

\* the state only MultiChannelHalfDuplexBot uses
multi == <<channel_speakers, channel_timers>>
\* the state only HalfDuplexBot's own callbacks use
single == <<current_speaker, speak_timers>>

(* ------------------------------------------------------------- helpers *)
\* the least element of a non-empty set of sessions: mumble.users is
\* iterated in session order
MinOf(S) == CHOOSE x \in S : \A y \in S : x <= y

\* _get_users_in_channel: the users whose channel is the target channel
UsersInChannel == {u \in Users : user_channel[u] = target_channel}

\* RevokeTargets without the test of line 131: the speaker is muted too
RevokeTargetsWithSpeaker(speaker_id) == UsersInChannel

\* the users _revoke_others_speak sends mute() to: everyone in the channel
\* but the speaker
RevokeTargets(speaker_id) == {u \in UsersInChannel : u # speaker_id}

\* the users _restore_speak_permissions sends unmute() to
RestoreTargets == UsersInChannel

\* the users stop() sends unmute() to
StopTargets == UsersInChannel

\* threading.Timer(...), started: waiting for its delay
NewTimer(kind, channel_id, user_id) ==
    [kind |-> kind, chan |-> channel_id, arg |-> user_id, st |-> "armed",
     todo |-> {}, sent |-> {}]

\* Timer.cancel(): sets the timer's finished event; it stops a timer that
\* is still waiting and does nothing to one whose callback has begun
Cancelled(t) == IF t.st = "armed" THEN [t EXCEPT !.st = "cancelled"] ELSE t

\* one mute()/unmute() request for user u: it takes effect, or it raises
\* (the exception is caught by the caller) and changes nothing
Request(u, value) ==
    \/ /\ muted' = [muted EXCEPT ![u] = value]
       /\ UNCHANGED failures
    \/ /\ failures < MaxFailures
       /\ failures' = failures + 1
       /\ UNCHANGED muted

\* the timers whose callback has begun and not yet returned
Running ==
    {i \in DOMAIN timers :
        timers[i].st \notin {"armed", "cancelled", "done", "dropped"}}

\* the bound on concurrency: a waiting timer fires only while fewer than
\* MaxRunning callbacks are running
CanFire == Cardinality(Running) < MaxRunning

(* ------------------------------------------------------------------ Init *)
Init ==
    /\ running = TRUE
    /\ current_speaker = None
    /\ speak_timers = [u \in Users |-> None]
    /\ lock = FREE
    /\ timers = <<>>
    /\ handler = [pc |-> "idle", user |-> None]
    /\ stopper = [pc |-> "idle", todo |-> {}, sent |-> {}]
    /\ muted = [u \in Users |-> FALSE]
    /\ signals = 0
    /\ failures = 0
    /\ channel_speakers = [c \in Channels |-> None]
    /\ channel_timers = [c \in Channels |-> [u \in Users |-> None]]

(* ------------------------------------- HalfDuplexBot.on_sound_received *)
\* Signal without the channel test of line 90
SignalUnfiltered(u) ==
    /\ handler.pc = "idle"
    /\ stopper.pc # "done"
    /\ signals < MaxSignals
    /\ signals' = signals + 1
    /\ handler' = IF running THEN [pc |-> "l97", user |-> u] ELSE handler
    /\ UNCHANGED <<running, current_speaker, speak_timers, lock, timers,
                   stopper, muted, failures, multi>>

\* lines 84-94: a sound chunk of user u is delivered; the callback returns
\* at once when the bot is stopping or u is not in the target channel
Signal(u) ==
    /\ handler.pc = "idle"
    /\ stopper.pc # "done"
    /\ signals < MaxSignals
    /\ signals' = signals + 1
    /\ handler' = IF running /\ user_channel[u] = target_channel
                  THEN [pc |-> "l97", user |-> u]
                  ELSE handler
    /\ UNCHANGED <<running, current_speaker, speak_timers, lock, timers,
                   stopper, muted, failures, multi>>

\* line 97: with self.lock
HandlerCancelAcquire ==
    /\ handler.pc = "l97"
    /\ lock = FREE
    /\ lock' = HANDLER
    /\ handler' = [handler EXCEPT !.pc = "l98"]
    /\ UNCHANGED <<running, current_speaker, speak_timers, timers, stopper,
                   muted, signals, failures, multi>>

\* lines 98-100: cancel and forget the user's pending restore timer
HandlerCancel ==
    /\ handler.pc = "l98"
    /\ LET u == handler.user
           t == speak_timers[u]
       IN IF t # None
          THEN /\ timers' = [timers EXCEPT ![t] = Cancelled(@)]
               /\ speak_timers' = [speak_timers EXCEPT ![u] = None]
          ELSE UNCHANGED <<timers, speak_timers>>
    /\ lock' = FREE
    /\ handler' = [handler EXCEPT !.pc = "l103"]
    /\ UNCHANGED <<running, current_speaker, stopper, muted, signals, failures, multi>>

\* HandlerCheck without the test of line 103: every signal takes the floor
HandlerCheckAlways ==
    /\ handler.pc = "l103"
    /\ handler' = [handler EXCEPT !.pc = "l108"]
    /\ UNCHANGED <<running, current_speaker, speak_timers, lock, timers,
                   stopper, muted, signals, failures, multi>>

\* line 103: if self.current_speaker != user_id
HandlerCheck ==
    /\ handler.pc = "l103"
    /\ handler' = [handler EXCEPT
                     !.pc = IF current_speaker # handler.user THEN "l108" ELSE "l116"]
    /\ UNCHANGED <<running, current_speaker, speak_timers, lock, timers,
                   stopper, muted, signals, failures, multi>>

\* lines 107-113: become the current speaker and start the revoke timer
HandlerSet ==
    /\ handler.pc = "l108"
    /\ current_speaker' = handler.user
    /\ timers' = Append(timers, NewTimer("revoke", target_channel, handler.user))
    /\ handler' = [handler EXCEPT !.pc = "l116"]
    /\ UNCHANGED <<running, speak_timers, lock, stopper, muted, signals, failures, multi>>

\* line 116: with self.lock
HandlerArmAcquire ==
    /\ handler.pc = "l116"
    /\ lock = FREE
    /\ lock' = HANDLER
    /\ handler' = [handler EXCEPT !.pc = "l117"]
    /\ UNCHANGED <<running, current_speaker, speak_timers, timers, stopper,
                   muted, signals, failures, multi>>

\* lines 117-121: create, register and start the restore timer
HandlerArm ==
    /\ handler.pc = "l117"
    /\ timers' = Append(timers, NewTimer("restore", target_channel, handler.user))
    /\ speak_timers' = [speak_timers EXCEPT ![handler.user] = Len(timers) + 1]
    /\ lock' = FREE
    /\ handler' = [pc |-> "idle", user |-> None]
    /\ UNCHANGED <<running, current_speaker, stopper, muted, signals, failures, multi>>

(* ----------------------------------- HalfDuplexBot._revoke_others_speak *)
\* RevokeFire without the current_speaker test of line 125
RevokeFireUnchecked(i) ==
    /\ timers[i].kind = "revoke"
    /\ timers[i].st = "armed"
    /\ CanFire
    /\ LET t == timers[i]
       IN timers' = [timers EXCEPT ![i] =
                       IF ~running
                       THEN [t EXCEPT !.st = "dropped"]
                       ELSE [t EXCEPT !.st = "loop",
                                      !.todo = RevokeTargets(t.arg)]]
    /\ UNCHANGED <<running, current_speaker, speak_timers, lock, handler,
                   stopper, muted, signals, failures, multi>>

\* lines 123-128: the revoke timer fires; the callback returns when the bot
\* is stopping or the speaker has changed, else it reads the roster
RevokeFire(i) ==
    /\ timers[i].kind = "revoke"
    /\ timers[i].st = "armed"
    /\ CanFire
    /\ LET t == timers[i]
       IN timers' = [timers EXCEPT ![i] =
                       IF ~running \/ current_speaker # t.arg
                       THEN [t EXCEPT !.st = "dropped"]
                       ELSE IF RevokeTargets(t.arg) = {}
                            THEN [t EXCEPT !.st = "done"]
                            ELSE [t EXCEPT !.st = "loop",
                                           !.todo = RevokeTargets(t.arg)]]
    /\ UNCHANGED <<running, current_speaker, speak_timers, lock, handler,
                   stopper, muted, signals, failures, multi>>

\* RevokeMute without the try/except of lines 132-137: a request that
\* raises ends the batch
RevokeMuteAborting(i) ==
    /\ timers[i].kind = "revoke"
    /\ timers[i].st = "loop"
    /\ LET u == MinOf(timers[i].todo)
       IN \/ /\ muted' = [muted EXCEPT ![u] = TRUE]
             /\ timers' = [timers EXCEPT ![i] =
                             [@ EXCEPT !.todo = @ \ {u},
                                       !.sent = @ \cup {u},
                                       !.st = IF timers[i].todo = {u}
                                              THEN "done" ELSE "loop"]]
             /\ UNCHANGED failures
          \/ /\ failures < MaxFailures
             /\ failures' = failures + 1
             /\ timers' = [timers EXCEPT ![i] =
                             [@ EXCEPT !.sent = @ \cup {u}, !.st = "done"]]
             /\ UNCHANGED muted
    /\ UNCHANGED <<running, current_speaker, speak_timers, lock, handler,
                   stopper, signals, multi>>

\* lines 130-137: mute() the next user of the roster
RevokeMute(i) ==
    /\ timers[i].kind = "revoke"
    /\ timers[i].st = "loop"
    /\ LET u == MinOf(timers[i].todo)
       IN /\ Request(u, TRUE)
          /\ timers' = [timers EXCEPT ![i] =
                          [@ EXCEPT !.todo = @ \ {u},
                                    !.sent = @ \cup {u},
                                    !.st = IF timers[i].todo = {u} THEN "done" ELSE "loop"]]
    /\ UNCHANGED <<running, current_speaker, speak_timers, lock, handler,
                   stopper, signals, multi>>

(* ----------------------------- HalfDuplexBot._restore_speak_permissions *)
\* the restore timer fires: Timer.run has found the timer not cancelled and
\* calls the callback, which is about to take the lock (line 141)
RestoreFire(i) ==
    /\ timers[i].kind = "restore"
    /\ timers[i].st = "armed"
    /\ CanFire
    /\ timers' = [timers EXCEPT ![i].st = "l141"]
    /\ UNCHANGED <<running, current_speaker, speak_timers, lock, handler,
                   stopper, muted, signals, failures, multi>>

\* line 141: with self.lock
RestoreAcquire(i) ==
    /\ timers[i].kind = "restore"
    /\ timers[i].st = "l141"
    /\ lock = FREE
    /\ lock' = i
    /\ timers' = [timers EXCEPT ![i].st = "l142"]
    /\ UNCHANGED <<running, current_speaker, speak_timers, handler, stopper,
                   muted, signals, failures, multi>>

\* RestoreDelete with the rest of the callback inside the `with` block: the
\* lock is not released after line 143
RestoreDeleteHolding(i) ==
    /\ timers[i].kind = "restore"
    /\ timers[i].st = "l142"
    /\ speak_timers' = [speak_timers EXCEPT ![timers[i].arg] = None]
    /\ timers' = [timers EXCEPT ![i].st = "l146"]
    /\ UNCHANGED <<running, current_speaker, lock, handler, stopper, muted,
                   signals, failures, multi>>

\* lines 142-143: forget whatever timer is registered for the user
RestoreDelete(i) ==
    /\ timers[i].kind = "restore"
    /\ timers[i].st = "l142"
    /\ speak_timers' = [speak_timers EXCEPT ![timers[i].arg] = None]
    /\ lock' = FREE
    /\ timers' = [timers EXCEPT ![i].st = "l146"]
    /\ UNCHANGED <<running, current_speaker, handler, stopper, muted, signals,
                   failures, multi>>

\* line 146: if self.current_speaker == user_id
RestoreCheck(i) ==
    /\ timers[i].kind = "restore"
    /\ timers[i].st = "l146"
    /\ timers' = [timers EXCEPT ![i].st =
                    IF current_speaker = timers[i].arg THEN "l148" ELSE "dropped"]
    /\ UNCHANGED <<running, current_speaker, speak_timers, lock, handler,
                   stopper, muted, signals, failures, multi>>

\* lines 148-151: clear the current speaker and read the roster
RestoreClear(i) ==
    /\ timers[i].kind = "restore"
    /\ timers[i].st = "l148"
    /\ current_speaker' = None
    /\ timers' = [timers EXCEPT ![i] = [@ EXCEPT !.st = "loop", !.todo = RestoreTargets]]
    /\ UNCHANGED <<running, speak_timers, lock, handler, stopper, muted,
                   signals, failures, multi>>

\* lines 153-159: unmute() the next user of the roster
RestoreUnmute(i) ==
    /\ timers[i].kind = "restore"
    /\ timers[i].st = "loop"
    /\ LET u == MinOf(timers[i].todo)
       IN /\ Request(u, FALSE)
          /\ timers' = [timers EXCEPT ![i] =
                          [@ EXCEPT !.todo = @ \ {u},
                                    !.sent = @ \cup {u},
                                    !.st = IF timers[i].todo = {u} THEN "done" ELSE "loop"]]
    /\ UNCHANGED <<running, current_speaker, speak_timers, lock, handler,
                   stopper, signals, multi>>

(* --------------------------- MultiChannelHalfDuplexBot.on_sound_received *)
\* _is_halfduplex_channel: the channels configured for half-duplex
\* (config['channels'])
HalfDuplexChannels == {1, 2}

\* lines 216-233: a sound chunk of user u is delivered to the multi-channel
\* bot; the callback returns at once when the bot is stopping or the user's
\* channel is not configured.  The channel's entries are created empty on
\* first use: an absent entry reads as None (dict.get), as here.
SignalMulti(u) ==
    /\ handler.pc = "idle"
    /\ stopper.pc # "done"
    /\ signals < MaxSignals
    /\ signals' = signals + 1
    /\ handler' = IF running /\ user_channel[u] \in HalfDuplexChannels
                  THEN [pc |-> "l236", user |-> u]
                  ELSE handler
    /\ UNCHANGED <<running, lock, timers, stopper, muted, failures, single, multi>>

\* line 236: with self.lock
MultiCancelAcquire ==
    /\ handler.pc = "l236"
    /\ lock = FREE
    /\ lock' = HANDLER
    /\ handler' = [handler EXCEPT !.pc = "l237"]
    /\ UNCHANGED <<running, timers, stopper, muted, signals, failures, single, multi>>

\* lines 237-239: cancel and forget the user's pending restore timer
MultiCancel ==
    /\ handler.pc = "l237"
    /\ LET u == handler.user
           c == user_channel[u]
           t == channel_timers[c][u]
       IN IF t # None
          THEN /\ timers' = [timers EXCEPT ![t] = Cancelled(@)]
               /\ channel_timers' = [channel_timers EXCEPT ![c][u] = None]
          ELSE UNCHANGED <<timers, channel_timers>>
    /\ lock' = FREE
    /\ handler' = [handler EXCEPT !.pc = "l242"]
    /\ UNCHANGED <<running, stopper, muted, signals, failures, single,
                   channel_speakers>>

\* line 242: if self.channel_speakers[channel_id] != user_id
MultiCheck ==
    /\ handler.pc = "l242"
    /\ handler' = [handler EXCEPT
                     !.pc = IF channel_speakers[user_channel[handler.user]] # handler.user
                            THEN "l244" ELSE "l251"]
    /\ UNCHANGED <<running, lock, timers, stopper, muted, signals, failures,
                   single, multi>>

\* lines 243-248: become the channel's speaker and start the revoke timer
MultiSet ==
    /\ handler.pc = "l244"
    /\ LET u == handler.user
           c == user_channel[u]
       IN /\ channel_speakers' = [channel_speakers EXCEPT ![c] = u]
          /\ timers' = Append(timers, NewTimer("revoke", c, u))
    /\ handler' = [handler EXCEPT !.pc = "l251"]
    /\ UNCHANGED <<running, lock, stopper, muted, signals, failures, single,
                   channel_timers>>

\* line 251: with self.lock
MultiArmAcquire ==
    /\ handler.pc = "l251"
    /\ lock = FREE
    /\ lock' = HANDLER
    /\ handler' = [handler EXCEPT !.pc = "l252"]
    /\ UNCHANGED <<running, timers, stopper, muted, signals, failures, single, multi>>

\* lines 252-256: create, register and start the restore timer
MultiArm ==
    /\ handler.pc = "l252"
    /\ LET u == handler.user
           c == user_channel[u]
       IN /\ timers' = Append(timers, NewTimer("restore", c, u))
          /\ channel_timers' = [channel_timers EXCEPT ![c][u] = Len(timers) + 1]
    /\ lock' = FREE
    /\ handler' = [pc |-> "idle", user |-> None]
    /\ UNCHANGED <<running, stopper, muted, signals, failures, single,
                   channel_speakers>>

(* ------------ MultiChannelHalfDuplexBot._revoke_others_speak_multichannel *)
\* MultiRevokeTargets without the channel test of line 269
MultiRevokeTargetsAnyChannel(channel_id, speaker_id) ==
    {u \in Users : u # speaker_id}

\* the users of channel_id the revoke loop sends mute() to (line 269)
MultiRevokeTargets(channel_id, speaker_id) ==
    {u \in Users : user_channel[u] = channel_id /\ u # speaker_id}

\* lines 263-266: the revoke timer fires; the callback returns when the bot
\* is stopping or the channel's speaker has changed
MultiRevokeFire(i) ==
    /\ timers[i].kind = "revoke"
    /\ timers[i].st = "armed"
    /\ CanFire
    /\ LET t == timers[i]
       IN timers' = [timers EXCEPT ![i] =
                       IF ~running \/ channel_speakers[t.chan] # t.arg
                       THEN [t EXCEPT !.st = "dropped"]
                       ELSE IF MultiRevokeTargets(t.chan, t.arg) = {}
                            THEN [t EXCEPT !.st = "done"]
                            ELSE [t EXCEPT !.st = "loop",
                                           !.todo = MultiRevokeTargets(t.chan, t.arg)]]
    /\ UNCHANGED <<running, lock, handler, stopper, muted, signals, failures,
                   single, multi>>

\* lines 268-273: mute() the next user of the channel
MultiRevokeMute(i) ==
    /\ timers[i].kind = "revoke"
    /\ timers[i].st = "loop"
    /\ LET u == MinOf(timers[i].todo)
       IN /\ Request(u, TRUE)
          /\ timers' = [timers EXCEPT ![i] =
                          [@ EXCEPT !.todo = @ \ {u},
                                    !.sent = @ \cup {u},
                                    !.st = IF timers[i].todo = {u} THEN "done" ELSE "loop"]]
    /\ UNCHANGED <<running, lock, handler, stopper, signals, single, multi>>

(* -------------------- MultiChannelHalfDuplexBot._restore_speak_multichannel *)
\* the users of channel_id the restore loop sends unmute() to (line 286)
MultiRestoreTargets(channel_id) == {u \in Users : user_channel[u] = channel_id}

\* the restore timer fires: Timer.run has found the timer not cancelled and
\* calls the callback, which is about to take the lock (line 277)
MultiRestoreFire(i) ==
    /\ timers[i].kind = "restore"
    /\ timers[i].st = "armed"
    /\ CanFire
    /\ timers' = [timers EXCEPT ![i].st = "l277"]
    /\ UNCHANGED <<running, lock, handler, stopper, muted, signals, failures,
                   single, multi>>

\* line 277: with self.lock
MultiRestoreAcquire(i) ==
    /\ timers[i].kind = "restore"
    /\ timers[i].st = "l277"
    /\ lock = FREE
    /\ lock' = i
    /\ timers' = [timers EXCEPT ![i].st = "l278"]
    /\ UNCHANGED <<running, handler, stopper, muted, signals, failures, single, multi>>

\* lines 278-279: forget whatever timer is registered for the user
MultiRestoreDelete(i) ==
    /\ timers[i].kind = "restore"
    /\ timers[i].st = "l278"
    /\ channel_timers' = [channel_timers EXCEPT ![timers[i].chan][timers[i].arg] = None]
    /\ lock' = FREE
    /\ timers' = [timers EXCEPT ![i].st = "l281"]
    /\ UNCHANGED <<running, handler, stopper, muted, signals, failures, single,
                   channel_speakers>>

\* line 281: if self.channel_speakers.get(channel_id) == user_id
MultiRestoreCheck(i) ==
    /\ timers[i].kind = "restore"
    /\ timers[i].st = "l281"
    /\ timers' = [timers EXCEPT ![i].st =
                    IF channel_speakers[timers[i].chan] = timers[i].arg
                    THEN "l283" ELSE "dropped"]
    /\ UNCHANGED <<running, lock, handler, stopper, muted, signals, failures,
                   single, multi>>

\* line 283: clear the channel's speaker; the loop then walks mumble.users
MultiRestoreClear(i) ==
    /\ timers[i].kind = "restore"
    /\ timers[i].st = "l283"
    /\ channel_speakers' = [channel_speakers EXCEPT ![timers[i].chan] = None]
    /\ timers' = [timers EXCEPT ![i] =
                    [@ EXCEPT !.st = "loop", !.todo = MultiRestoreTargets(timers[i].chan)]]
    /\ UNCHANGED <<running, lock, handler, stopper, muted, signals, failures,
                   single, channel_timers>>

\* lines 285-290: unmute() the next user of the channel
MultiRestoreUnmute(i) ==
    /\ timers[i].kind = "restore"
    /\ timers[i].st = "loop"
    /\ LET u == MinOf(timers[i].todo)
       IN /\ Request(u, FALSE)
          /\ timers' = [timers EXCEPT ![i] =
                          [@ EXCEPT !.todo = @ \ {u},
                                    !.sent = @ \cup {u},
                                    !.st = IF timers[i].todo = {u} THEN "done" ELSE "loop"]]
    /\ UNCHANGED <<running, lock, handler, stopper, signals, single, multi>>

(* ---------------------------------------------------- HalfDuplexBot.stop *)
\* lines 181-184: stop() is called; self.running = False
StopBegin ==
    /\ stopper.pc = "idle"
    /\ signals <= MaxSignalsBeforeStop
    /\ running' = FALSE
    /\ stopper' = [stopper EXCEPT !.pc = "l187"]
    /\ UNCHANGED <<current_speaker, speak_timers, lock, timers, handler, muted,
                   signals, failures, multi>>

\* line 187: with self.lock
StopAcquire ==
    /\ stopper.pc = "l187"
    /\ lock = FREE
    /\ lock' = STOPPER
    /\ stopper' = [stopper EXCEPT !.pc = "l188"]
    /\ UNCHANGED <<running, current_speaker, speak_timers, timers, handler,
                   muted, signals, failures, multi>>

\* lines 188-190: cancel every registered timer and clear the registry
StopCancel ==
    /\ stopper.pc = "l188"
    /\ timers' = [i \in DOMAIN timers |->
                    IF \E u \in Users : speak_timers[u] = i
                    THEN Cancelled(timers[i]) ELSE timers[i]]
    /\ speak_timers' = [u \in Users |-> None]
    /\ lock' = FREE
    /\ stopper' = [stopper EXCEPT !.pc = "l193"]
    /\ UNCHANGED <<running, current_speaker, handler, muted, signals, failures, multi>>

\* lines 193-194: the connection is up; read the roster
StopRoster ==
    /\ stopper.pc = "l193"
    /\ stopper' = [stopper EXCEPT !.pc = "loop", !.todo = StopTargets]
    /\ UNCHANGED <<running, current_speaker, speak_timers, lock, timers,
                   handler, muted, signals, failures, multi>>

\* lines 195-201: unmute() the next user of the roster; after the last one
\* the connection is closed (self.mumble.stop())
StopUnmute ==
    /\ stopper.pc = "loop"
    /\ LET u == MinOf(stopper.todo)
       IN /\ Request(u, FALSE)
          /\ stopper' = [stopper EXCEPT !.todo = @ \ {u},
                                        !.sent = @ \cup {u},
                                        !.pc = IF stopper.todo = {u} THEN "done" ELSE "loop"]
    /\ UNCHANGED <<running, current_speaker, speak_timers, lock, timers,
                   handler, signals, multi>>

(* ------------------------------------------------------------------ Next *)
Next ==
    \/ \E u \in Participants : Signal(u)
    \/ HandlerCancelAcquire
    \/ HandlerCancel
    \/ HandlerCheck
    \/ HandlerSet
    \/ HandlerArmAcquire
    \/ HandlerArm
    \/ \E i \in DOMAIN timers : RevokeFire(i)
    \/ \E i \in DOMAIN timers : RevokeMute(i)
    \/ \E i \in DOMAIN timers : RestoreFire(i)
    \/ \E i \in DOMAIN timers : RestoreAcquire(i)
    \/ \E i \in DOMAIN timers : RestoreDelete(i)
    \/ \E i \in DOMAIN timers : RestoreCheck(i)
    \/ \E i \in DOMAIN timers : RestoreClear(i)
    \/ \E i \in DOMAIN timers : RestoreUnmute(i)
    \/ StopBegin
    \/ StopAcquire
    \/ StopCancel
    \/ StopRoster
    \/ StopUnmute

Spec == Init /\ [][Next]_vars

\* MultiChannelHalfDuplexBot: its own callbacks and the inherited stop()
NextMulti ==
    \/ \E u \in Participants : SignalMulti(u)
    \/ MultiCancelAcquire
    \/ MultiCancel
    \/ MultiCheck
    \/ MultiSet
    \/ MultiArmAcquire
    \/ MultiArm
    \/ \E i \in DOMAIN timers : MultiRevokeFire(i)
    \/ \E i \in DOMAIN timers : MultiRevokeMute(i)
    \/ \E i \in DOMAIN timers : MultiRestoreFire(i)
    \/ \E i \in DOMAIN timers : MultiRestoreAcquire(i)
    \/ \E i \in DOMAIN timers : MultiRestoreDelete(i)
    \/ \E i \in DOMAIN timers : MultiRestoreCheck(i)
    \/ \E i \in DOMAIN timers : MultiRestoreClear(i)
    \/ \E i \in DOMAIN timers : MultiRestoreUnmute(i)
    \/ StopBegin
    \/ StopAcquire
    \/ StopCancel
    \/ StopRoster
    \/ StopUnmute

SpecMulti == Init /\ [][NextMulti]_vars

(* ================================================================ claims *)
\* the timers of each kind, by index
RevokeTimers == {i \in DOMAIN timers : timers[i].kind = "revoke"}
RestoreTimers == {i \in DOMAIN timers : timers[i].kind = "restore"}

\* the revoke timer started by the latest write of current_speaker by
\* on_sound_received (0 when there is none yet)
LastRevoke ==
    IF RevokeTimers = {} THEN 0
    ELSE CHOOSE i \in RevokeTimers : \A j \in RevokeTimers : j <= i

\* timer i's callback issues a mute()/unmute() request in this step
Issues(i) == timers'[i].sent # timers[i].sent

\* restore timer i's callback writes current_speaker = None in this step
Clears(i) ==
    /\ timers[i].kind = "restore"
    /\ timers[i].st \in {"l148", "l283"}
    /\ timers'[i].st = "loop"

(* ------------------------------------------------------------------- C1 *)
\* C1: half-duplex guarantee.  While the bot runs and no request has
\* failed, whenever current_speaker = p and the revoke batch started by p's
\* latest acquisition of the floor has completed, every other user of the
\* channel is muted.
HalfDuplexGuarantee ==
    \A p \in Users :
        ( /\ running
          /\ stopper.pc = "idle"
          /\ failures = 0
          /\ current_speaker = p
          /\ LastRevoke # 0
          /\ timers[LastRevoke].arg = p
          /\ timers[LastRevoke].st = "done" )
        => \A u \in UsersInChannel \ {p} : muted[u]

(* ------------------------------------------------------------------- C2 *)
\* C2: race drop.  Taking the floor starts a revoke timer for the new
\* speaker.  A revoke timer that fires while current_speaker is not
\* its participant issues no mute request, changes no mute flag, starts no
\* timer and stays dropped for good; a revoke timer that fires while the
\* bot runs and its participant is the current speaker walks the roster and
\* has issued a mute request to every user of the channel but its
\* participant when it is done.
RaceDropStep ==
    /\ (current_speaker' # current_speaker /\ current_speaker' # None)
       => /\ Len(timers') = Len(timers) + 1
          /\ timers'[Len(timers')] =
                 NewTimer("revoke", target_channel, current_speaker')
    /\ \A i \in DOMAIN timers :
        /\ ( /\ timers[i].kind = "revoke"
             /\ timers[i].st = "armed"
             /\ timers'[i].st # "armed"
             /\ current_speaker # timers[i].arg )
           => /\ timers'[i].st = "dropped"
              /\ muted' = muted
              /\ Len(timers') = Len(timers)
        /\ ( /\ timers[i].kind = "revoke"
             /\ timers[i].st = "armed"
             /\ timers'[i].st # "armed"
             /\ running
             /\ current_speaker = timers[i].arg )
           => /\ timers'[i].st = "loop"
              /\ timers'[i].todo = UsersInChannel \ {timers[i].arg}
        /\ ( timers[i].kind = "revoke" /\ timers[i].st = "dropped" )
           => timers'[i] = timers[i]

RaceDropState ==
    \A i \in RevokeTimers :
        /\ timers[i].st = "dropped" => timers[i].sent = {}
        /\ timers[i].st = "done" =>
               timers[i].sent = UsersInChannel \ {timers[i].arg}

RaceDrop == [][RaceDropStep]_vars /\ []RaceDropState

\* A took the floor, B took it before A's revoke timer fired: A's timer has
\* dropped without a request and B's has muted everybody but B
RaceDropWitness ==
    \E i, j \in RevokeTimers :
        /\ i < j
        /\ timers[i].arg # timers[j].arg
        /\ timers[i].st = "dropped"
        /\ timers[i].sent = {}
        /\ timers[j].st = "done"
        /\ timers[j].sent = UsersInChannel \ {timers[j].arg}
        /\ current_speaker = timers[j].arg

(* ------------------------------------------------------------------- C3 *)
\* C3: a stale restore never corrupts a newer speaker's state.  The restore
\* callback of a timer armed for p writes current_speaker = None only in a
\* state where current_speaker is p.
StaleRestoreNeverOverwrites ==
    [][\A i \in DOMAIN timers : Clears(i) => current_speaker = timers[i].arg]_vars

(* ------------------------------------------------------------------- C4 *)
\* C4: ordering of a stale restore against a newer revoke.  Once the revoke
\* batch of the newer speaker q (the latest to take the floor, after the
\* restore timer of p was armed) has issued a mute request, the restore
\* batch of the timer armed for p issues no unmute request while q holds
\* the floor.
NoStaleUnmuteAfterNewerRevoke ==
    [][\A i \in DOMAIN timers :
          ( /\ timers[i].kind = "restore"
            /\ Issues(i)
            /\ LastRevoke > i
            /\ timers[LastRevoke].arg # timers[i].arg
            /\ timers[LastRevoke].sent # {}
            /\ current_speaker = timers[LastRevoke].arg )
          => FALSE]_vars

(* ------------------------------------------------------------------- C5 *)
\* C5: restore-timer uniqueness.  At most one restore timer per participant
\* is waiting to fire, and every waiting restore timer is the one the
\* registry records for its participant.
RestoreTimerUnique ==
    /\ \A u \in Users :
          Cardinality({i \in RestoreTimers :
                          timers[i].arg = u /\ timers[i].st = "armed"}) <= 1
    /\ \A i \in RestoreTimers :
          timers[i].st = "armed" => speak_timers[timers[i].arg] = i

(* ------------------------------------------------------------------- C6 *)
\* C6: revoke-timer uniqueness.  At most one revoke timer per participant
\* is waiting to fire.
RevokeTimerUnique ==
    \A u \in Users :
        Cardinality({i \in RevokeTimers :
                        timers[i].arg = u /\ timers[i].st = "armed"}) <= 1

(* ------------------------------------------------------------------- C7 *)
\* C7: debounce safety.  A restore timer of p that a later signal of p has
\* superseded (a newer restore timer of p exists) never clears
\* current_speaker, so it starts no unmute batch.
SupersededRestoreNeverFires ==
    [][\A i \in DOMAIN timers :
          Clears(i) =>
              ~ \E j \in RestoreTimers :
                    j > i /\ timers[j].arg = timers[i].arg]_vars

(* ------------------------------------------------------------------- C8 *)
\* restore timer i's callback has cleared current_speaker and begun its
\* unmute batch
Restored(i) == timers[i].kind = "restore" /\ timers[i].st \in {"loop", "done"}

\* C8: exactly one restore-all batch per silence.  When the last callback
\* delivered was p's and p held the floor since before restore timer i of p
\* was armed (no speaker change between timer i and the last timer), the
\* restore timers i and last of p have not both run an unmute batch.
OneRestorePerSilence ==
    handler.pc = "idle" =>
        ~ \E i \in RestoreTimers :
              /\ i < Len(timers)
              /\ timers[Len(timers)].arg = timers[i].arg
              /\ \A r \in (i + 1)..Len(timers) : timers[r].kind = "restore"
              /\ Restored(i)
              /\ Restored(Len(timers))

(* ------------------------------------------------------------------- C9 *)
\* C9: shutdown quiescence.  Once stop() has cancelled the timers, no timer
\* callback clears current_speaker or issues a mute/unmute request.
ShutdownQuiescent ==
    [][stopper.pc \in {"l193", "loop", "done"} =>
          \A i \in DOMAIN timers : ~Issues(i) /\ ~Clears(i)]_vars

(* ------------------------------------------------------------------ C10 *)
\* C10: shutdown ordering.  The step of stop() that cancels the timers,
\* which precedes the first unmute of the final sweep, leaves no restore
\* timer waiting to fire and both timer registries empty.
StopCancelsEveryTimer ==
    [][(stopper.pc = "l188" /\ stopper'.pc = "l193") =>
          /\ \A i \in DOMAIN timers :
                timers[i].kind = "restore" => timers'[i].st # "armed"
          /\ \A u \in Users : speak_timers'[u] = None
          /\ \A c \in Channels : \A u \in Users : channel_timers'[c][u] = None]_vars

(* ------------------------------------------------------------------ C11 *)
\* C11: bot exclusion.  No revoke batch has issued a mute request, and no
\* restore batch an unmute request, to the bot's own session.
BotNeverTargeted ==
    \A i \in DOMAIN timers : Bot \notin timers[i].sent

(* ------------------------------------------------------------------ C12 *)
\* no restore callback has begun: less than restore_delay has passed since
\* the last signal
NoRestoreBegun ==
    \A j \in RestoreTimers : timers[j].st \in {"armed", "cancelled"}

\* every signal handled so far was p's: all the timers are p's
OnlySignaller(p) == \A j \in DOMAIN timers : timers[j].arg = p

\* C12: revoke batch targets.  When participant P1 has signalled (once or
\* again and again) and nobody else has, the revoke timer that fires while
\* the bot runs and before any restore callback walks the roster of the
\* channel without P1; the batch never issues a mute request to P1, and when
\* it is done it has issued one to every other user of the channel.
RevokeBatchTargetsStep ==
    \A i \in DOMAIN timers :
        ( /\ running
          /\ OnlySignaller(timers[i].arg)
          /\ NoRestoreBegun
          /\ timers[i].kind = "revoke"
          /\ timers[i].st = "armed"
          /\ timers'[i].st # "armed" )
        => /\ timers'[i].st = "loop"
           /\ timers'[i].todo = UsersInChannel \ {timers[i].arg}

RevokeBatchTargetsState ==
    \A i \in RevokeTimers :
        OnlySignaller(timers[i].arg) =>
            /\ timers[i].arg \notin timers[i].sent \cup timers[i].todo
            /\ timers[i].st = "loop" =>
                   timers[i].sent \cup timers[i].todo =
                       UsersInChannel \ {timers[i].arg}
            /\ timers[i].st = "done" =>
                   timers[i].sent = UsersInChannel \ {timers[i].arg}

RevokeBatchTargets == [][RevokeBatchTargetsStep]_vars /\ []RevokeBatchTargetsState

\* P1 alone has signalled, twice; its revoke batch is done before any
\* restore callback began: the bot and P2 have been sent mute(), P1 has not
RevokeBatchTargetsWitness ==
    /\ signals = 2
    /\ handler.pc = "idle"
    /\ OnlySignaller(1)
    /\ NoRestoreBegun
    /\ current_speaker = 1
    /\ Len(timers) = 3
    /\ timers[1].kind = "revoke"
    /\ timers[1].st = "done"
    /\ timers[1].sent = {Bot, 2}

(* ------------------------------------------------------------------ C13 *)
\* C13: scope isolation.  A signal of a participant outside the target
\* channel changes neither current_speaker nor the timer registry, starts
\* no timer and leaves the callback returned; no callback ever handles such
\* a participant, no timer is started or registered for one, none becomes
\* the current speaker, and no batch and no shutdown sweep has a user
\* outside the target channel in its roster or among its requests.
ScopeIsolationStep ==
    \A u \in Participants :
        (user_channel[u] # target_channel /\ Signal(u)) =>
            /\ UNCHANGED <<current_speaker, speak_timers, timers, muted>>
            /\ handler'.pc = "idle"

ScopeIsolationState ==
    /\ handler.user # None => handler.user \in UsersInChannel
    /\ current_speaker # None => current_speaker \in UsersInChannel
    /\ \A u \in Users \ UsersInChannel : speak_timers[u] = None /\ ~muted[u]
    /\ \A i \in DOMAIN timers :
          /\ timers[i].arg \in UsersInChannel
          /\ timers[i].sent \cup timers[i].todo \subseteq UsersInChannel
    /\ stopper.sent \cup stopper.todo \subseteq UsersInChannel

ScopeIsolation == [][ScopeIsolationStep]_vars /\ []ScopeIsolationState

\* two callbacks were delivered while the bot ran, only one of them was
\* handled (the other came from outside the target channel), and the
\* revoke batch of the handled one is done
ScopeIsolationWitness ==
    /\ running
    /\ stopper.pc = "idle"
    /\ handler.pc = "idle"
    /\ signals = 2
    /\ Cardinality(RestoreTimers) = 1
    /\ \E i \in RevokeTimers :
          timers[i].st = "done" /\ timers[i].sent = UsersInChannel \ {timers[i].arg}

(* ------------------------------------------------------------------ C14 *)
\* the users a batch of timer i sends its requests to
BatchTargets(i) ==
    IF timers[i].kind = "revoke" THEN UsersInChannel \ {timers[i].arg}
    ELSE UsersInChannel

\* C14: enforcement isolation.  A step in which a request raises changes
\* neither current_speaker nor the timer registry nor running nor any mute
\* flag, and the batch that issued it goes on with its next user without
\* asking the failed one again; every batch that is done has issued its
\* request to every user of its roster, whatever failed on the way.
EnforcementIsolationStep ==
    failures' # failures =>
        /\ UNCHANGED <<current_speaker, speak_timers, running, muted>>
        /\ Len(timers') = Len(timers)
        /\ \A i \in DOMAIN timers :
              Issues(i) =>
                  /\ timers'[i].todo \cap timers'[i].sent = {}
                  /\ timers'[i].todo \cup timers'[i].sent = BatchTargets(i)
                  /\ timers'[i].st = IF timers'[i].todo = {} THEN "done" ELSE "loop"

EnforcementIsolationState ==
    \A i \in DOMAIN timers :
        /\ timers[i].todo \cap timers[i].sent = {}
        /\ timers[i].st = "loop" => timers[i].todo # {}
        /\ timers[i].st = "done" => timers[i].sent = BatchTargets(i)

EnforcementIsolation ==
    [][EnforcementIsolationStep]_vars /\ []EnforcementIsolationState

\* the first mute() of P1's revoke batch raised (the bot stays unmuted), the
\* batch went on and muted P2, and P1 still holds the floor
EnforcementIsolationWitness ==
    /\ failures = 1
    /\ running
    /\ current_speaker = 1
    /\ ~muted[Bot]
    /\ muted[2]
    /\ Len(timers) = 2
    /\ timers[1].kind = "revoke"
    /\ timers[1].st = "done"
    /\ timers[1].sent = {Bot, 2}
    /\ timers[2].st = "armed"

(* ------------------------------------------------------------------ C15 *)
\* the sound_received thread reads (line 103) or writes (line 108)
\* current_speaker in this step
HandlerTouchesSpeaker ==
    handler.pc \in {"l103", "l108"} /\ handler'.pc # handler.pc

\* timer i's callback reads or writes current_speaker (lines 125, 146, 148)
\* or the timer registry (lines 142-143) in this step
TimerTouchesState(i) ==
    /\ timers'[i].st # timers[i].st
    /\ \/ timers[i].kind = "revoke" /\ timers[i].st = "armed" /\ timers'[i].st # "cancelled"
       \/ timers[i].kind = "restore" /\ timers[i].st \in {"l142", "l146", "l148"}

\* timer i's callback reads or writes current_speaker in this step
TimerTouchesSpeaker(i) ==
    TimerTouchesState(i) /\ timers[i].st # "l142"

\* C15: transition atomicity.  From the cancel step of a signal to its arm
\* step no timer callback reads or writes current_speaker or the timer
\* registry, and every read or write of current_speaker, by the
\* sound_received thread or by a timer callback, is made by the thread that
\* holds the lock.
TransitionAtomic ==
    [][/\ HandlerTouchesSpeaker => lock = HANDLER
       /\ \A i \in DOMAIN timers :
             /\ TimerTouchesSpeaker(i) => lock = i
             /\ TimerTouchesState(i) =>
                    handler.pc \notin {"l103", "l108", "l116", "l117"}]_vars

(* ------------------------------------------------------------------ C16 *)
\* the shutdown sweep issues an unmute() request in this step
SweepIssues == stopper'.sent # stopper.sent

\* C16 as stated: no mute or unmute request, of a revoke batch, a restore
\* batch or the shutdown sweep, is issued while any thread holds the lock.
NoRequestWhileLockHeld ==
    [][((\E i \in DOMAIN timers : Issues(i)) \/ SweepIssues) => lock = FREE]_vars

\* C16, amended: no mute or unmute request is issued by the thread that
\* holds the lock.  A thread holds the lock only across its registry block
\* (lines 98-100, 117-121, 142-143, 188-190), never while it walks a roster,
\* so a request that is slow or blocked keeps no thread from taking the lock.
NoRequestByLockHolderStep ==
    /\ \A i \in DOMAIN timers : Issues(i) => lock # i
    /\ SweepIssues => lock # STOPPER

NoRequestByLockHolderState ==
    /\ lock = HANDLER => handler.pc \in {"l98", "l117"}
    /\ lock = STOPPER => stopper.pc = "l188"
    /\ \A i \in DOMAIN timers :
          /\ lock = i => timers[i].st = "l142"
          /\ timers[i].st = "loop" => lock # i
    /\ stopper.pc = "loop" => lock # STOPPER

NoRequestByLockHolder ==
    [][NoRequestByLockHolderStep]_vars /\ []NoRequestByLockHolderState

\* a revoke batch is in the middle of its roster, one request sent, while
\* the sound_received thread holds the lock for the next signal
NoRequestByLockHolderWitness ==
    /\ lock = HANDLER
    /\ \E i \in RevokeTimers :
          /\ timers[i].st = "loop"
          /\ timers[i].sent # {}
          /\ timers[i].todo # {}

(* ------------------------------------------------------------------ C17 *)
\* a timer is created in this step
Schedules == Len(timers') = Len(timers) + 1

\* the timer created in this step
Scheduled == timers'[Len(timers')]

\* C17: revoke is scheduled only on a speaker change.  The signal of p that
\* reads current_speaker (line 103) goes on to take the floor exactly when
\* current_speaker is not p; taking the floor writes current_speaker = p
\* and starts one revoke timer for p, and nothing else starts a revoke timer
\* or writes a participant into current_speaker; a signal that found
\* current_speaker = p goes straight to the arm step, and from the read on
\* the sound_received thread neither writes current_speaker nor starts a
\* revoke timer; every handled signal ends by starting and registering a
\* new restore timer for p.
RevokeOnlyOnChangeStep ==
    /\ (handler.pc = "l103" /\ handler' # handler) =>
          /\ handler'.pc = IF current_speaker # handler.user THEN "l108" ELSE "l116"
          /\ UNCHANGED <<current_speaker, timers, speak_timers>>
    /\ (handler.pc = "l108" /\ handler' # handler) =>
          /\ current_speaker # handler.user
          /\ current_speaker' = handler.user
          /\ Schedules
          /\ Scheduled = NewTimer("revoke", target_channel, handler.user)
          /\ handler'.pc = "l116"
    /\ (Schedules /\ Scheduled.kind = "revoke") => handler.pc = "l108"
    /\ (current_speaker' # current_speaker /\ current_speaker' # None) =>
          handler.pc = "l108"
    /\ (handler.pc = "l116" /\ handler' # handler) =>
          /\ handler'.pc = "l117"
          /\ UNCHANGED <<current_speaker, timers, speak_timers>>
    /\ (handler.pc = "l117" /\ handler' # handler) =>
          /\ UNCHANGED current_speaker
          /\ Schedules
          /\ Scheduled = NewTimer("restore", target_channel, handler.user)
          /\ speak_timers'[handler.user] = Len(timers')
          /\ handler'.pc = "idle"
    /\ (handler.pc # "idle" /\ handler'.pc = "idle") => handler.pc = "l117"

RevokeOnlyOnChange == [][RevokeOnlyOnChangeStep]_vars

\* P1 took the floor and signalled again while holding it: the second signal
\* started no revoke timer, left current_speaker alone and re-armed P1's
\* restore timer
RevokeOnlyOnChangeWitness ==
    /\ handler.pc = "idle"
    /\ signals = 2
    /\ current_speaker = 1
    /\ Len(timers) = 3
    /\ timers[1].kind = "revoke" /\ timers[1].arg = 1
    /\ timers[2].kind = "restore" /\ timers[2].arg = 1
    /\ timers[2].st = "cancelled"
    /\ timers[3] = NewTimer("restore", target_channel, 1)
    /\ speak_timers[1] = 3

(* ------------------------------------------------------------------ C18 *)
\* the users of channel c
ChannelUsers(c) == {u \in Users : user_channel[u] = c}

\* a thread working for channel c takes a step: the sound_received thread
\* handling a user of c, or the callback of a timer of c
ActsFor(c) ==
    \/ /\ handler.user # None
       /\ user_channel[handler.user] = c
       /\ handler' # handler
    \/ \E i \in DOMAIN timers :
          /\ timers[i].chan = c
          /\ timers[i].st # "armed"
          /\ timers'[i] # timers[i]

\* C18: per-channel independence of the multi-channel bot.  The speaker and
\* the restore-timer registry of a channel change only in a step taken for
\* that channel; a timer is started for the channel of the user whose signal
\* is handled; a batch sends its requests to users of its own channel only;
\* a channel's speaker and its registered timers belong to users of that
\* channel.
ChannelsIndependentStep ==
    /\ \A c \in Channels :
          ( \/ channel_speakers'[c] # channel_speakers[c]
            \/ channel_timers'[c] # channel_timers[c] ) => ActsFor(c)
    /\ Schedules =>
          /\ handler.user # None
          /\ Scheduled.arg = handler.user
          /\ Scheduled.chan = user_channel[handler.user]
    /\ \A i \in DOMAIN timers :
          Issues(i) =>
              timers'[i].sent \ timers[i].sent \subseteq ChannelUsers(timers[i].chan)

ChannelsIndependentState ==
    /\ \A c \in Channels :
          /\ channel_speakers[c] # None => channel_speakers[c] \in ChannelUsers(c)
          /\ \A u \in Users :
                channel_timers[c][u] # None =>
                    /\ u \in ChannelUsers(c)
                    /\ timers[channel_timers[c][u]].chan = c
                    /\ timers[channel_timers[c][u]].arg = u
    /\ \A i \in DOMAIN timers :
          /\ timers[i].arg \in ChannelUsers(timers[i].chan)
          /\ timers[i].sent \cup timers[i].todo \subseteq ChannelUsers(timers[i].chan)

ChannelsIndependent ==
    [][ChannelsIndependentStep]_vars /\ []ChannelsIndependentState

\* P1 holds channel 1 and its revoke batch has muted the bot and P2; P3 took
\* channel 2 and its restore batch has cleared channel 2 and unmuted P3
\* only: channel 1 still has its speaker and its users are still muted
ChannelsIndependentWitness ==
    /\ channel_speakers[1] = 1
    /\ channel_speakers[2] = None
    /\ muted[Bot] /\ muted[2]
    /\ \E i, j \in DOMAIN timers :
          /\ timers[i].kind = "revoke" /\ timers[i].chan = 1
          /\ timers[i].st = "done" /\ timers[i].sent = {Bot, 2}
          /\ timers[j].kind = "restore" /\ timers[j].chan = 2
          /\ timers[j].st = "done" /\ timers[j].sent = {3}

(* ------------------------------------------------------------------ C19 *)
\* C19: the floor holder is never muted.  No revoke batch issues a mute
\* request to the user who is current_speaker when the request is issued.
FloorHolderNeverMuted ==
    [][\A i \in DOMAIN timers :
          (timers[i].kind = "revoke" /\ Issues(i)) =>
              current_speaker \notin timers'[i].sent \ timers[i].sent]_vars

(* ------------------------------------------------------------------ C20 *)
\* no timer is waiting to fire and no timer callback is running
NoTimerPending ==
    \A i \in DOMAIN timers : timers[i].st \in {"cancelled", "done", "dropped"}

\* C20: no stuck mute at quiescence.  While the bot runs and no request has
\* failed, whenever current_speaker is None, no callback is being handled,
\* no timer is waiting and no timer callback is running, no user of the
\* channel is muted.
NoStuckMute ==
    ( /\ running
      /\ stopper.pc = "idle"
      /\ failures = 0
      /\ handler.pc = "idle"
      /\ current_speaker = None
      /\ NoTimerPending )
    => \A u \in UsersInChannel : ~muted[u]

====
